---- MODULE Spec2Model ----
(***************************************************************************)
(* Fixit (WithSecureLabs/fixit): session sequence tracker, interception    *)
(* pipeline, history log and fuzzing engine, modelled for one FIX session. *)
(*                                                                         *)
(* Threads: the foreground (CLI) thread runs logon(), logout(), the send   *)
(* commands and the fuzz loop; the QuickFIX engine thread runs the         *)
(* application callbacks (toAdmin, fromAdmin, fromApp, onLogon, onLogout); *)
(* the interceptor proxy forwards what the engine writes to its socket.    *)
(* A blocking polling loop is split at its sleep, every other handler is   *)
(* one action.  Time is counted in seconds since the start of the polling  *)
(* loop that is running.                                                   *)
(***************************************************************************)
EXTENDS Integers, Sequences, FiniteSets, TLC

(***************************************************************************)
(* Program constants                                                       *)
(***************************************************************************)
None == 0
INVALID == -1
DEFAULT_LOGON_TIMEOUT == 10
DEFAULT_LOGOUT_TIMEOUT == 2
DEFAULT_RECONNECT_INTERVAL == 30
MANUAL_RECON_INT == 0
LogonAttemptCeiling == 5
FuzzMaxAttempts == 10
SOH_BIN == "SOH"
SOH_UNI == "|"
MsgType_Logon == "A"
MsgType_Logout == "5"
MsgType_Heartbeat == "0"
MsgType_Order == "D"
MsgType_ExecReport == "8"
ADM_I == "ADM_I"
ADM_O == "ADM_O"
APP_I == "APP_I"
APP_O == "APP_O"

(***************************************************************************)
(* Bounds of the model                                                     *)
(***************************************************************************)
MaxAttempts == 6
MaxLogCalls == 5
MaxQueue == 2
MaxOutbound == 1
MaxPolls == 12
MaxStore == 3
MaxBatches == 3
MaxFileMsgs == 2
MaxBody == 2
MaxEdits == 1
MaxRepairs == 2
MaxDepth == 2
ConfigIntervals == {30}
ConfigLogonTimeouts == {INVALID, 5}
SleepSteps == {5, 10}
SeqNums == {3}


(***************************************************************************)
(* Messages.  A message is a record of the fields the tracker, the log and *)
(* the pipeline look at: the field delimiter of its string form, MsgType   *)
(* (35), a MsgSeqNum (34) and a NextExpectedMsgSeqNum (789) set by toAdmin *)
(* (None when the engine's own value is used / the field is absent), the   *)
(* SendingTime (52) as a tick count, whether TestReqID (112) is present,   *)
(* the Text (58) as keyword and        *)
(* number, whether the engine can parse the string, and the payload.       *)
(***************************************************************************)
NoText == [kw |-> "", n |-> 0]

Mk(type, body) ==
    [kind |-> "obj", delim |-> SOH_BIN, type |-> type, seq |-> None, nextExp |-> None,
     time |-> 0, testReq |-> FALSE, text |-> NoText, valid |-> TRUE, body |-> body]

NoMsg == Mk("", "")

\* FixitClient.msg_to_str: a Message object is first rendered by toString()
\* (SOH delimited); the delimiters are then all rewritten to the binary or
\* to the printable form.  The result is a str.
msg_to_str(message, binary) ==
    [message EXCEPT !.kind = "str",
                    !.delim = IF binary THEN SOH_BIN ELSE SOH_UNI]

\* str.encode('ascii')
encode(string) == [string EXCEPT !.kind = "bytes"]

\* bytes.decode("unicode_escape") rewrites backslash escapes of the payload
unicode_escape(body) == IF body = "raw\\x41" THEN "rawA" ELSE body

\* Utils.bytes_to_ascii: bytes are decoded, a str has no decode() and is
\* returned as it is
bytes_to_ascii(string) ==
    IF string.kind = "bytes"
    THEN [string EXCEPT !.kind = "str", !.body = unicode_escape(string.body)]
    ELSE string

LogonMsg == Mk(MsgType_Logon, "logon")
LogoutMsg == Mk(MsgType_Logout, "logout")
HeartbeatMsg == Mk(MsgType_Heartbeat, "hb")
AppMsg == Mk(MsgType_Order, "order")
ResponseMsg == Mk(MsgType_ExecReport, "exec")

RejectTexts ==
    {NoText} \cup
    {[kw |-> k, n |-> n] : k \in {"MsgSeqNum", "NextExpectedMsgSeqNum"}, n \in SeqNums}

RawData ==
    { [msg_to_str(Mk(MsgType_Order, "raw"), FALSE) EXCEPT !.valid = v] : v \in BOOLEAN }
    \cup { msg_to_str(Mk(MsgType_Order, "raw\\x41"), FALSE) }
    \cup { [msg_to_str(Mk(MsgType_Heartbeat, "rawtest"), FALSE) EXCEPT !.testReq = TRUE] }

VARIABLES
    engineEnabled, engState,
    session_settings, config_recon_int,
    session_attempting_logon, session_logon_attempts, session_loggedon,
    session_NextSenderSeqNum, session_NextExpSeqNum,
    session_message_count, session_message_log, log_file, uuid_count,
    ignored_messages,
    message_queue, outbound,
    pc, elapsed, threshhold,
    ev, nLogCalls, consecutive,
    fuzz_fields, fuzz_dict, fuzz_i, fuzz_j, counter, attempts, polls, sending_time, csv_file,
    t_pc, t_obj, t_tmp,
    store, auto_resp, load_left, load_input, batch, st,
    raw, edits, cd,
    hq, peer

engVars  == <<engineEnabled, engState>>
cfgVars  == <<session_settings, config_recon_int>>
seqVars  == <<session_NextSenderSeqNum, session_NextExpSeqNum>>
trkVars  == <<session_attempting_logon, session_logon_attempts, session_loggedon, consecutive>>
logVars  == <<session_message_count, session_message_log, log_file, uuid_count, nLogCalls>>
pipeVars == <<message_queue, outbound>>
fgVars   == <<pc, elapsed, threshhold>>
fuzzVars == <<fuzz_fields, fuzz_dict, fuzz_i, fuzz_j, counter, attempts, polls, sending_time, csv_file>>
concVars == <<t_pc, t_obj, t_tmp>>
storeVars == <<store, auto_resp, load_left, load_input, batch, st>>
codecVars == <<raw, edits, cd>>
libVars  == <<storeVars, codecVars, hq, peer>>
auxVars  == <<fuzzVars, concVars, libVars>>


vars == <<engineEnabled, engState, session_settings, config_recon_int,
          session_attempting_logon, session_logon_attempts, session_loggedon,
          session_NextSenderSeqNum, session_NextExpSeqNum,
          session_message_count, session_message_log, log_file, uuid_count,
          ignored_messages, message_queue, outbound,
          pc, elapsed, threshhold, ev, nLogCalls, consecutive,
          fuzz_fields, fuzz_dict, fuzz_i, fuzz_j, counter, attempts, polls, sending_time,
          csv_file, t_pc, t_obj, t_tmp, libVars>>

\* ev records the handler that ran last: its name, the path it took, the
\* message it handed on, whether it called Session.logout(), and a number
\* (logon: the Session.logout() calls it has made; logout: the reconnect
\* interval when it was called).
Ev(op, path, msg, lo, n) == [op |-> op, path |-> path, msg |-> msg, lo |-> lo, n |-> n]

(***************************************************************************)
(* Engine and settings accessors                                           *)
(***************************************************************************)
isLoggedOn == engState \in {"logged_on", "logout_sent"}

get_session_config(key) ==
    IF key \in DOMAIN session_settings THEN session_settings[key] ELSE INVALID

set_session_config(key, value) == [session_settings EXCEPT ![key] = value]

Truthy(x) == x /= None

(***************************************************************************)
(* PeekableQueue                                                           *)
(***************************************************************************)
QueueEmpty(q) == q = <<>>

peek(q) == Head(q)

QueueAfterPeekPops(q) == Tail(q)

QueueAfterPeek(q) == q

put(q, item) == Append(q, item)

(***************************************************************************)
(* _log_message, _log_to_file, _gen_HistoryID                              *)
(***************************************************************************)
gen_uuid(n) == n + 1

ModifiedVersionOf(uuid) == <<"Modified version of", uuid>>

NewMsgObj(route, message, uuid) ==
    [uuid |-> uuid, state |-> "SENT", route |-> route, type |-> message.type,
     msg |-> msg_to_str(message, FALSE), notes |-> <<>>]

InterceptedObj(msg_obj) == [msg_obj EXCEPT !.state = "INTERCEPTED"]

SubstitutedObjNotesNewUuid(msg_obj, sub, uuid) ==
    [msg_obj EXCEPT !.msg = bytes_to_ascii(msg_to_str(sub, FALSE)),
                    !.state = "SENT",
                    !.notes = ModifiedVersionOf(uuid),
                    !.uuid = uuid]

SubstitutedObj(msg_obj, sub, uuid) ==
    [msg_obj EXCEPT !.msg = bytes_to_ascii(msg_to_str(sub, FALSE)),
                    !.state = "SENT",
                    !.notes = ModifiedVersionOf(msg_obj.uuid),
                    !.uuid = uuid]

\* What the hook logs for `message` when the queue is q and n uuids were drawn
LogFinalObj(route, message, q, n) ==
    LET obj == NewMsgObj(route, message, gen_uuid(n))
    IN  IF QueueEmpty(q) THEN obj
        ELSE SubstitutedObj(obj, bytes_to_ascii(peek(q)), gen_uuid(gen_uuid(n)))

LogFileRows(route, message, q, n) ==
    LET obj == NewMsgObj(route, message, gen_uuid(n))
    IN  IF QueueEmpty(q) THEN << LogFinalObj(route, message, q, n) >>
        ELSE << InterceptedObj(obj), LogFinalObj(route, message, q, n) >>

\* The TestReqID (112) lookup that follows the file write: "raise" when
\* msg_str_get_field finds the field in a substituted string (it then calls
\* the non-existent str.solit), "skip" for an ignored message type without
\* TestReqID, "append" otherwise.
LogOutcomeAppendsIgnored(message, q, ignored) ==
    IF ~QueueEmpty(q) /\ peek(q).testReq THEN "raise" ELSE "append"

LogOutcome(message, q, ignored) ==
    IF ~QueueEmpty(q)
    THEN IF peek(q).testReq THEN "raise"
         ELSE IF message.type \in ignored THEN "skip" ELSE "append"
    ELSE IF message.testReq THEN "append"
         ELSE IF message.type \in ignored THEN "skip" ELSE "append"

_gen_HistoryID(count) == count + 1

\* msg_obj once msg_obj["id"] is set
HistoryEntry(id, o) ==
    [id |-> id, uuid |-> o.uuid, state |-> o.state, route |-> o.route,
     type |-> o.type, msg |-> o.msg, notes |-> o.notes]

NoEntry == HistoryEntry(-1, NewMsgObj("", NoMsg, 0))

\* _log_message for the queue q (the queue as it is when the hook runs)
LogMessage(route, message, q) ==
    LET hit     == ~QueueEmpty(q)
        final   == LogFinalObj(route, message, q, uuid_count)
        outcome == LogOutcome(message, q, ignored_messages)
        id      == _gen_HistoryID(session_message_count)
    IN  /\ message_queue' = IF hit THEN QueueAfterPeek(q) ELSE q
        /\ uuid_count' = IF hit THEN gen_uuid(gen_uuid(uuid_count)) ELSE gen_uuid(uuid_count)
        /\ log_file' = log_file \o LogFileRows(route, message, q, uuid_count)
        /\ IF outcome = "append"
           THEN /\ session_message_count' = id
                /\ session_message_log' =
                       Append(session_message_log, HistoryEntry(id, final))
           ELSE UNCHANGED <<session_message_count, session_message_log>>
        /\ nLogCalls' = nLogCalls + 1


(***************************************************************************)
(* Application callbacks (run on the engine thread)                        *)
(***************************************************************************)
CeilingReachedLate(n) == n > LogonAttemptCeiling

CeilingReached(n) == n >= LogonAttemptCeiling

\* toAdmin, "Correct Sequence Number if required"
LogonWithSender(message, override) ==
    IF Truthy(override) THEN [message EXCEPT !.seq = override] ELSE message

NextSenderAfterLogon(override) ==
    IF Truthy(override) THEN None ELSE override

\* toAdmin, "Correct next expected seq number if required": the field is set,
\* and when the session is marked logged on the override is cleared and the
\* field is removed from the message again.
LogonWithNextExp(message, override, loggedon) ==
    IF Truthy(override)
    THEN IF loggedon THEN [message EXCEPT !.nextExp = None]
         ELSE [message EXCEPT !.nextExp = override]
    ELSE message

NextExpAfterLogon(override, loggedon) ==
    IF Truthy(override) /\ loggedon THEN None ELSE override

\* The message toAdmin leaves for the engine to send
ToAdminOut(message) ==
    IF message.type = MsgType_Logon /\ ~CeilingReached(session_logon_attempts + 1)
    THEN LogonWithNextExp(LogonWithSender(message, session_NextSenderSeqNum),
                          session_NextExpSeqNum, session_loggedon)
    ELSE message

ToAdminForcesLogout(message) ==
    message.type = MsgType_Logon /\ CeilingReached(session_logon_attempts + 1)

\* toAdmin: sets the attempt flag and counter, the overrides, the log and
\* (by peeking) the queue
ToAdminH(message) ==
    LET isLogon == message.type = MsgType_Logon
    IN  /\ session_attempting_logon' = (isLogon \/ session_attempting_logon)
        /\ session_logon_attempts' =
               IF isLogon THEN session_logon_attempts + 1 ELSE session_logon_attempts
        /\ consecutive' = IF isLogon THEN consecutive + 1 ELSE consecutive
        /\ IF ToAdminForcesLogout(message)
           THEN UNCHANGED <<seqVars, logVars, message_queue>>
           ELSE /\ nLogCalls < MaxLogCalls
                /\ IF isLogon
                   THEN /\ session_NextSenderSeqNum' =
                               NextSenderAfterLogon(session_NextSenderSeqNum)
                        /\ session_NextExpSeqNum' =
                               NextExpAfterLogon(session_NextExpSeqNum, session_loggedon)
                   ELSE UNCHANGED seqVars
                /\ LogMessage(ADM_O, ToAdminOut(message), message_queue)

\* fromAdmin: r"^.*(MsgSeqNum).*expecting ([0-9]+).*$" and
\* r"^.*(NextExpectedMsgSeqNum).*expecting ([0-9]+).*$" searched in Text (58)
MatchesMsgSeqNum(text) == text.kw \in {"MsgSeqNum", "NextExpectedMsgSeqNum"}

MatchesNextExpectedMsgSeqNum(text) == text.kw = "NextExpectedMsgSeqNum"

\* fromAdmin: logs first; an exception of the log call skips the rest
FromAdminH(message) ==
    /\ nLogCalls < MaxLogCalls
    /\ LogMessage(ADM_I, message, message_queue)
    /\ IF LogOutcome(message, message_queue, ignored_messages) = "raise"
       THEN UNCHANGED seqVars
       ELSE /\ session_NextSenderSeqNum' =
                   IF MatchesMsgSeqNum(message.text)
                   THEN message.text.n + 2 ELSE session_NextSenderSeqNum
            /\ session_NextExpSeqNum' =
                   IF MatchesNextExpectedMsgSeqNum(message.text)
                   THEN message.text.n + 2 ELSE session_NextExpSeqNum

OnLogonAttempts(n) == 0

\* onLogon
OnLogonH ==
    /\ session_loggedon' = TRUE
    /\ session_logon_attempts' = OnLogonAttempts(session_logon_attempts)
    /\ consecutive' = 0
    /\ UNCHANGED session_attempting_logon

\* onLogout
OnLogoutH ==
    /\ session_loggedon' = IF ~session_attempting_logon THEN FALSE ELSE session_loggedon
    /\ UNCHANGED <<session_attempting_logon, session_logon_attempts, consecutive>>

(***************************************************************************)
(* The engine: it sends a Logon when enabled and disconnected, a Logout    *)
(* when disabled and logged on, and reports what the counterparty answers. *)
(***************************************************************************)
EngineSendLogon ==
    /\ engineEnabled /\ engState = "disconnected"
    /\ session_logon_attempts < MaxAttempts
    /\ Len(outbound) < MaxOutbound
    /\ ToAdminH(LogonMsg)
    /\ engState' = "logon_sent"
    /\ engineEnabled' = ~ToAdminForcesLogout(LogonMsg)
    /\ outbound' = Append(outbound, ToAdminOut(LogonMsg))
    /\ ev' = Ev("toAdmin", IF ToAdminForcesLogout(LogonMsg) THEN "ceiling" ELSE "logged",
                ToAdminOut(LogonMsg), ToAdminForcesLogout(LogonMsg), 0)
    /\ UNCHANGED <<cfgVars, session_loggedon, ignored_messages, fgVars>>
    /\ UNCHANGED auxVars

EngineLogonAccepted ==
    /\ engineEnabled /\ engState = "logon_sent"
    /\ FromAdminH(LogonMsg)
    /\ OnLogonH
    /\ engState' = "logged_on"
    /\ ev' = Ev("onLogon", "", LogonMsg, FALSE, 0)
    /\ UNCHANGED <<engineEnabled, cfgVars, ignored_messages, outbound, fgVars>>
    /\ UNCHANGED auxVars

EngineLogonRejected ==
    /\ engState = "logon_sent"
    /\ \E text \in RejectTexts :
          /\ FromAdminH([LogoutMsg EXCEPT !.text = text])
          /\ ev' = Ev("fromAdmin", "rejected", [LogoutMsg EXCEPT !.text = text], FALSE, 0)
    /\ OnLogoutH
    /\ engState' = "disconnected"
    /\ UNCHANGED <<engineEnabled, cfgVars, ignored_messages, outbound, fgVars>>
    /\ UNCHANGED auxVars

EngineDisconnect ==
    /\ engState /= "disconnected"
    /\ OnLogoutH
    /\ engState' = "disconnected"
    /\ ev' = Ev("onLogout", "", NoMsg, FALSE, 0)
    /\ UNCHANGED <<engineEnabled, cfgVars, seqVars, logVars, ignored_messages, pipeVars, fgVars>>
    /\ UNCHANGED auxVars

EngineSendLogout ==
    /\ ~engineEnabled /\ engState = "logged_on"
    /\ Len(outbound) < MaxOutbound
    /\ ToAdminH(LogoutMsg)
    /\ engState' = "logout_sent"
    /\ outbound' = Append(outbound, LogoutMsg)
    /\ ev' = Ev("toAdmin", "logged", LogoutMsg, FALSE, 0)
    /\ UNCHANGED <<engineEnabled, cfgVars, session_loggedon, ignored_messages, fgVars>>
    /\ UNCHANGED auxVars

EngineLogoutAck ==
    /\ engState = "logout_sent"
    /\ FromAdminH(LogoutMsg)
    /\ OnLogoutH
    /\ engState' = "disconnected"
    /\ ev' = Ev("fromAdmin", "logout", LogoutMsg, FALSE, 0)
    /\ UNCHANGED <<engineEnabled, cfgVars, ignored_messages, outbound, fgVars>>
    /\ UNCHANGED auxVars


(***************************************************************************)
(* logon() and logout() (foreground thread)                                *)
(***************************************************************************)
LogonThreshhold(interval, timeout) ==
    (IF interval /= INVALID THEN interval ELSE DEFAULT_RECONNECT_INTERVAL) +
    (IF timeout /= INVALID THEN timeout ELSE DEFAULT_LOGON_TIMEOUT)

LogoutThreshhold(timeout) ==
    IF timeout /= INVALID THEN timeout ELSE DEFAULT_LOGOUT_TIMEOUT

\* logon(), up to the polling loop
Logon ==
    /\ pc = "idle"
    /\ IF isLoggedOn
       THEN /\ ev' = Ev("logon", "already", NoMsg, FALSE, 0)
            /\ UNCHANGED <<engVars, trkVars, fgVars>>
       ELSE /\ engineEnabled' = TRUE
            /\ elapsed' = 0
            /\ session_attempting_logon' = TRUE
            /\ threshhold' = LogonThreshhold(get_session_config("ReconnectInterval"),
                                             get_session_config("LogonTimeout"))
            /\ pc' = "logon_poll"
            /\ ev' = Ev("logon", "polling", NoMsg, FALSE, 0)
            /\ UNCHANGED <<engState, session_logon_attempts, session_loggedon, consecutive>>
    /\ UNCHANGED <<cfgVars, seqVars, logVars, ignored_messages, pipeVars>>
    /\ UNCHANGED auxVars

LogonTailFlag(flag) == FALSE

\* logon(), after the loop: "Revert reconnect interval to original value"
LogonTail ==
    /\ session_settings' = set_session_config("ReconnectInterval", config_recon_int)
    /\ session_attempting_logon' = LogonTailFlag(session_attempting_logon)
    /\ pc' = "idle"
    /\ UNCHANGED <<config_recon_int, elapsed, threshhold>>

TimedOut(t, limit) == t > limit

LogonTimeoutKeepsEngine(enabled) == enabled

LogonTimeoutEngine(enabled) == FALSE

\* logon(), one iteration of the polling loop
LogonPoll ==
    /\ pc = "logon_poll"
    /\ IF isLoggedOn
       THEN /\ LogonTail
            /\ ev' = Ev("logon", "success", NoMsg, FALSE, ev.n)
            /\ UNCHANGED engVars
       ELSE IF TimedOut(elapsed, threshhold)
       THEN /\ engineEnabled' = LogonTimeoutEngine(engineEnabled)
            /\ LogonTail
            /\ ev' = Ev("logon", "timeout", NoMsg, ~LogonTimeoutEngine(engineEnabled),
                        IF LogonTimeoutEngine(engineEnabled) THEN ev.n ELSE ev.n + 1)
            /\ UNCHANGED engState
       ELSE /\ \E d \in SleepSteps : elapsed' = elapsed + d
            /\ ev' = Ev("logon", "polling", NoMsg, FALSE, ev.n)
            /\ UNCHANGED <<engVars, cfgVars, session_attempting_logon, pc, threshhold>>
    /\ UNCHANGED <<session_logon_attempts, session_loggedon, consecutive,
                   seqVars, logVars, ignored_messages, pipeVars>>
    /\ UNCHANGED auxVars

\* logout(), up to the polling loop
Logout ==
    /\ pc = "idle"
    /\ session_settings' = set_session_config("ReconnectInterval", MANUAL_RECON_INT)
    /\ IF session_attempting_logon
       THEN /\ ev' = Ev("logout", "early", NoMsg, FALSE, get_session_config("ReconnectInterval"))
            /\ UNCHANGED <<engVars, fgVars>>
       ELSE /\ engineEnabled' = FALSE
            /\ threshhold' = LogoutThreshhold(get_session_config("LogoutTimeout"))
            /\ elapsed' = 0
            /\ pc' = "logout_poll"
            /\ ev' = Ev("logout", "polling", NoMsg, TRUE, get_session_config("ReconnectInterval"))
            /\ UNCHANGED engState
    /\ UNCHANGED <<config_recon_int, trkVars, seqVars, logVars, ignored_messages, pipeVars>>
    /\ UNCHANGED auxVars

\* logout(), one iteration of the polling loop
LogoutPoll ==
    /\ pc = "logout_poll"
    /\ IF ~isLoggedOn
       THEN /\ pc' = "idle"
            /\ ev' = Ev("logout", "confirmed", NoMsg, FALSE, ev.n)
            /\ UNCHANGED <<elapsed, threshhold>>
       ELSE IF TimedOut(elapsed, threshhold)
       THEN /\ pc' = "idle"
            /\ ev' = Ev("logout", "timeout", NoMsg, FALSE, ev.n)
            /\ UNCHANGED <<elapsed, threshhold>>
       ELSE /\ \E d \in SleepSteps : elapsed' = elapsed + d
            /\ ev' = Ev("logout", "polling", NoMsg, FALSE, ev.n)
            /\ UNCHANGED <<pc, threshhold>>
    /\ UNCHANGED <<engVars, cfgVars, trkVars, seqVars, logVars, ignored_messages, pipeVars>>
    /\ UNCHANGED auxVars

(***************************************************************************)
(* MessageInterceptor (core/interceptor.py): the proxy between the engine  *)
(* and the counterparty.  For each message the engine writes it takes the  *)
(* head of the substitution queue, if there is one, and forwards it in     *)
(* place of the message; otherwise it forwards the message.                *)
(***************************************************************************)
InterceptorForward ==
    /\ outbound /= <<>>
    /\ outbound' = Tail(outbound)
    /\ IF QueueEmpty(message_queue)
       THEN /\ ev' = Ev("forward", "original", Head(outbound), FALSE, 0)
            /\ UNCHANGED message_queue
       ELSE /\ ev' = Ev("forward", "substituted", Head(message_queue), FALSE, 0)
            /\ message_queue' = Tail(message_queue)
    /\ UNCHANGED <<engVars, cfgVars, trkVars, seqVars, logVars, ignored_messages, fgVars>>
    /\ UNCHANGED auxVars

(***************************************************************************)
(* Sends (foreground thread) and the other engine callbacks                *)
(***************************************************************************)
\* FixitClient.str_to_msg: the Message object parsed from the string, None
\* when the engine cannot parse it
str_to_msg(msg_str) ==
    IF msg_str.valid THEN [msg_str EXCEPT !.kind = "obj", !.delim = SOH_BIN] ELSE NoMsg

\* send_message for the queue q: a string is parsed first; sendToTarget calls
\* toApp and the engine writes the message when the session is logged on.
\* sendToTarget(None) and an exception of the hook end the send.
SendMessageH(message, q) ==
    LET m == IF message.kind = "str" THEN str_to_msg(message) ELSE message
    IN  IF m = NoMsg
        THEN /\ message_queue' = q
             /\ ev' = Ev("toApp", "unparsed", NoMsg, FALSE, 0)
             /\ UNCHANGED <<logVars, outbound>>
        ELSE /\ LogMessage(APP_O, m, q)
             /\ IF LogOutcome(m, q, ignored_messages) = "raise"
                THEN /\ ev' = Ev("toApp", "raised", m, FALSE, 0)
                     /\ UNCHANGED outbound
                ELSE IF isLoggedOn
                THEN /\ Len(outbound) < MaxOutbound
                     /\ outbound' = Append(outbound, m)
                     /\ ev' = Ev("toApp", "sent", m, FALSE, 0)
                ELSE /\ ev' = Ev("toApp", "unsent", m, FALSE, 0)
                     /\ UNCHANGED outbound

SendMessage ==
    /\ pc = "idle"
    /\ nLogCalls < MaxLogCalls
    /\ SendMessageH(AppMsg, message_queue)
    /\ UNCHANGED <<engVars, cfgVars, trkVars, seqVars, ignored_messages, fgVars>>
    /\ UNCHANGED auxVars

\* send_raw_data: "Queue and flag the message (so the interceptor can ensure
\* it's sent)", then send_message
SendRawData ==
    /\ pc = "idle"
    /\ nLogCalls < MaxLogCalls
    /\ Len(message_queue) < MaxQueue
    /\ \E data \in RawData :
          SendMessageH(data, put(message_queue, encode(msg_to_str(data, TRUE))))
    /\ UNCHANGED <<engVars, cfgVars, trkVars, seqVars, ignored_messages, fgVars>>
    /\ UNCHANGED auxVars

\* the engine's heartbeat: toAdmin, then the socket write
EngineHeartbeatOut ==
    /\ engState = "logged_on"
    /\ Len(outbound) < MaxOutbound
    /\ ToAdminH(HeartbeatMsg)
    /\ IF LogOutcome(HeartbeatMsg, message_queue, ignored_messages) = "raise"
       THEN /\ ev' = Ev("toAdmin", "raised", HeartbeatMsg, FALSE, 0)
            /\ UNCHANGED outbound
       ELSE /\ ev' = Ev("toAdmin", "logged", HeartbeatMsg, FALSE, 0)
            /\ outbound' = Append(outbound, HeartbeatMsg)
    /\ UNCHANGED <<engVars, cfgVars, session_loggedon, ignored_messages, fgVars>>
    /\ UNCHANGED auxVars

\* the counterparty's heartbeat: fromAdmin
EngineHeartbeatIn ==
    /\ engState = "logged_on"
    /\ FromAdminH(HeartbeatMsg)
    /\ ev' = Ev("fromAdmin", "heartbeat", HeartbeatMsg, FALSE, 0)
    /\ UNCHANGED <<engVars, cfgVars, trkVars, ignored_messages, outbound, fgVars>>
    /\ UNCHANGED auxVars

\* an application message of the counterparty: fromApp
EngineFromApp ==
    /\ engState = "logged_on"
    /\ nLogCalls < MaxLogCalls
    /\ LogMessage(APP_I, ResponseMsg, message_queue)
    /\ ev' = Ev("fromApp", "", ResponseMsg, FALSE, 0)
    /\ UNCHANGED <<engVars, cfgVars, trkVars, seqVars, ignored_messages, outbound, fgVars>>
    /\ UNCHANGED auxVars

(***************************************************************************)
(* MessageStore (core/message_store.py) and the commands that use it       *)
(* (message load, message save, message delete).                           *)
(*                                                                         *)
(* A store id is the string base:qualifier.  It is modelled by its base    *)
(* and its final segment q: a decimal number, NoQualifier when the final   *)
(* segment is not numeric (the id is then the base alone), or              *)
(* SuperscriptTwo for a final segment such as the superscript digit two    *)
(* (U+00B2), for which str.isnumeric() is True and int() raises           *)
(* ValueError.                                                             *)
(***************************************************************************)
YES == "YES"
NO == "NO"
YES_ALL == "YES_ALL"
NO_ALL == "NO_ALL"
NoResp == "None"

NoQualifier == -1
SuperscriptTwo == -2

MkId(base, q) == [base |-> base, q |-> q]

NoId == MkId("", NoQualifier)

\* str.isnumeric() of the final segment
isnumeric(q) == q /= NoQualifier

\* int() of the final segment raises ValueError
IntRaises(q) == q = SuperscriptTwo

MsgTypeName(type) == IF type = MsgType_Order THEN "NewOrderSingle" ELSE "Logon"

\* gen_MsgStoreID: f"{BeginString}:{msg_type_name}-{msg_type}:1"
gen_MsgStoreID(message) == MkId(<<"FIX.4.2", MsgTypeName(message.type), message.type>>, 1)

\* the ids a user gives to message save
UserIds == {MkId(<<"myorder">>, NoQualifier), MkId(<<"myorder">>, SuperscriptTwo)}

StoreMessages == {Mk(MsgType_Order, "m1"), Mk(MsgType_Order, "m2"), Mk(MsgType_Logon, "m3")}

\* the strings given to message load STRING: the messages, and one that
\* str_to_msg cannot parse
StoreStrings ==
    { msg_to_str(m, FALSE) : m \in StoreMessages }
    \cup { [msg_to_str(Mk(MsgType_Order, "m1"), FALSE) EXCEPT !.valid = FALSE] }

\* the arguments that follow the message on the command line
UserInputs == {<<>>, <<YES_ALL>>, <<NO_ALL>>, <<YES>>}

\* the answers to the overwrite prompt that end its loop
PromptResponses == {YES, NO, YES_ALL, NO_ALL}

HasYES(r) == r \in {YES, YES_ALL}

HasNO(r) == r \in {NO, NO_ALL}

HasALL(r) == r \in {YES_ALL, NO_ALL}

\* _overwrite: the value returned, the remembered response afterwards and
\* whether the user was prompted; r is the answer given if a prompt is shown
_overwrite(s, resp, store_id, user_input, r) ==
    IF store_id \in DOMAIN s /\ resp \notin {YES_ALL, NO_ALL}
    THEN LET a1 == IF user_input /= <<>> /\ user_input[1] \in {YES_ALL, NO_ALL}
                   THEN user_input[1] ELSE resp
         IN  IF a1 = YES_ALL THEN [ret |-> TRUE, resp |-> a1, prompted |-> FALSE]
             ELSE IF a1 = NO_ALL THEN [ret |-> FALSE, resp |-> a1, prompted |-> FALSE]
             ELSE IF HasYES(r)
             THEN [ret |-> TRUE, resp |-> IF HasALL(r) THEN YES_ALL ELSE a1, prompted |-> TRUE]
             ELSE [ret |-> FALSE, resp |-> IF HasALL(r) THEN NO_ALL ELSE a1, prompted |-> TRUE]
    ELSE [ret |-> FALSE, resp |-> resp, prompted |-> FALSE]

\* the answers that can be given in update_store: those of the prompt when
\* _overwrite shows it, none (NO stands for it) when it does not
Answers(s, resp, store_id, user_input) ==
    IF _overwrite(s, resp, store_id, user_input, NO).prompted THEN PromptResponses ELSE {NO}

\* _validate_MsgStoreID, "while store_id in self.store": the first unused id
\* reached by incrementing the qualifier; NoId stands for the ValueError of
\* int()
RECURSIVE NextUnused(_, _)
NextUnused(s, store_id) ==
    IF store_id \notin DOMAIN s THEN store_id
    ELSE IF IntRaises(s[store_id].id.q) THEN NoId
    ELSE NextUnused(s, MkId(s[store_id].id.base, s[store_id].id.q + 1))

\* _validate_MsgStoreID once _overwrite has returned ow
_validate_MsgStoreID(s, store_id, ow) ==
    IF ow THEN store_id
    ELSE NextUnused(s, IF ~isnumeric(store_id.q) THEN MkId(store_id.base, 1) ELSE store_id)

StoreObj(store_id, message) ==
    [id |-> store_id, type |-> message.type, msg |-> msg_to_str(message, FALSE)]

\* self.store[msg_obj["id"]] = msg_obj
StorePut(s, store_id, obj) ==
    [k \in DOMAIN s \cup {store_id} |-> IF k = store_id THEN obj ELSE s[k]]

\* self.store.pop(store_id)
StorePop(s, store_id) == [k \in DOMAIN s \ {store_id} |-> s[k]]

EmptyStore == [k \in {} |-> NoId]

\* st records the store operation that ran last: its name, the batch it
\* belongs to and whether it is the first save of that batch, the candidate
\* id, the command-line arguments, whether it prompted, whether overwrite was
\* confirmed, whether YES_ALL or NO_ALL was given in this save or in an
\* earlier save of the same file load, the id it returned and whether it
\* raised.
StEv(op, first, cand, input, o, id, raised) ==
    [op |-> op, batch |-> batch', first |-> first, cand |-> cand, input |-> input,
     prompted |-> o.prompted, ow |-> o.ret,
     given |-> \/ o.resp \in {YES_ALL, NO_ALL} /\ o.resp /= auto_resp
               \/ op = "load_file_step" /\ st.op = "load_file_step" /\ st.given,
     id |-> id, raised |-> raised]

NoOverwrite == [ret |-> FALSE, resp |-> NoResp, prompted |-> FALSE]

StoreInit ==
    /\ store = EmptyStore
    /\ auto_resp = NoResp
    /\ load_left = <<>>
    /\ load_input = <<>>
    /\ batch = 0
    /\ st = [op |-> "init", batch |-> 0, first |-> FALSE, cand |-> NoId, input |-> <<>>,
             prompted |-> FALSE, ow |-> FALSE, given |-> FALSE,
             id |-> NoId, raised |-> FALSE]

\* what the store operations leave alone
nonStoreVars == <<engVars, cfgVars, trkVars, seqVars, logVars, ignored_messages, pipeVars,
                  fgVars, ev, fuzzVars, concVars, codecVars, hq, peer>>

\* update_store: store_id is NoId when the caller passes none.  ends tells
\* whether the caller resets the remembered response after this save.
update_store(op, first, message, user_input, store_id, r, ends) ==
    LET cand == IF store_id = NoId THEN gen_MsgStoreID(message) ELSE store_id
        o    == _overwrite(store, auto_resp, cand, user_input, r)
        id   == _validate_MsgStoreID(store, cand, o.ret)
    IN  /\ Cardinality(DOMAIN store) < MaxStore
        /\ IF id = NoId
           THEN /\ auto_resp' = o.resp
                /\ UNCHANGED store
           ELSE /\ auto_resp' = IF ends THEN NoResp ELSE o.resp
                /\ store' = StorePut(store, id, StoreObj(id, message))
        /\ st' = StEv(op, first, cand, user_input, o, id, id = NoId)

\* message load STRING <message> [response]
LoadFromString ==
    /\ load_left = <<>>
    /\ batch < MaxBatches
    /\ batch' = batch + 1
    /\ \E string \in StoreStrings, u \in UserInputs :
          IF str_to_msg(string) = NoMsg
          THEN /\ st' = StEv("load_string_unparsed", TRUE, NoId, u, NoOverwrite, NoId, FALSE)
               /\ UNCHANGED <<store, auto_resp>>
          ELSE \E r \in Answers(store, auto_resp, gen_MsgStoreID(str_to_msg(string)), u) :
                  update_store("load_string", TRUE, str_to_msg(string), u, NoId, r, FALSE)
    /\ UNCHANGED <<load_left, load_input>>
    /\ UNCHANGED nonStoreVars

\* the messages load_from_file extracts from a file (one per field signature)
FileBatches == UNION { [1..n -> StoreMessages] : n \in 0..MaxFileMsgs }

\* message load FILE <file> [response], up to the loop over the messages
LoadFromFile ==
    /\ load_left = <<>>
    /\ batch < MaxBatches
    /\ batch' = batch + 1
    /\ \/ /\ st' = StEv("load_file_error", FALSE, NoId, <<>>, NoOverwrite, NoId, FALSE)
          /\ UNCHANGED <<auto_resp, load_left, load_input>>
       \/ \E msgs \in FileBatches, u \in UserInputs :
             /\ load_left' = msgs
             /\ load_input' = u
             /\ auto_resp' = IF msgs = <<>> THEN NoResp ELSE auto_resp
             /\ st' = StEv("load_file", FALSE, NoId, u, NoOverwrite, NoId, FALSE)
    /\ UNCHANGED store
    /\ UNCHANGED nonStoreVars

\* load_from_file, one iteration of the loop over the messages; after the
\* last one "run_ctx.cli.message_store.auto_resp = None"
LoadFileStep ==
    /\ load_left /= <<>>
    /\ UNCHANGED <<load_input, batch>>
    /\ \E r \in Answers(store, auto_resp, gen_MsgStoreID(Head(load_left)), load_input) :
          update_store("load_file_step", st.op = "load_file", Head(load_left), load_input,
                       NoId, r, Len(load_left) = 1)
    /\ load_left' = IF st'.raised THEN <<>> ELSE Tail(load_left)
    /\ UNCHANGED nonStoreVars

\* message save [store_id]: the id given, or the id of the context message
SaveMessage ==
    /\ load_left = <<>>
    /\ batch < MaxBatches
    /\ batch' = batch + 1
    /\ \E m \in StoreMessages :
       \E id \in UserIds \cup DOMAIN store \cup {gen_MsgStoreID(m)} :
       \E r \in Answers(store, auto_resp, id, <<>>) :
          update_store("save", TRUE, m, <<>>, id, r, FALSE)
    /\ UNCHANGED <<load_left, load_input>>
    /\ UNCHANGED nonStoreVars

\* MessageStore.remove
Remove ==
    /\ load_left = <<>>
    /\ UNCHANGED <<auto_resp, load_left, load_input, batch>>
    /\ \E id \in UserIds \cup DOMAIN store :
          /\ store' = IF id \in DOMAIN store THEN StorePop(store, id) ELSE store
          /\ st' = StEv("remove", FALSE, id, <<>>, NoOverwrite, NoId, id \notin DOMAIN store)
    /\ UNCHANGED nonStoreVars

DeleteArgs == {<<>>, <<YES>>, <<NO>>, <<"maybe">>}

\* message delete <store_id> [response]
DeleteRun ==
    /\ load_left = <<>>
    /\ UNCHANGED <<auto_resp, load_left, load_input, batch>>
    /\ \E id \in UserIds \cup DOMAIN store, args_trail \in DeleteArgs :
       \E r \in IF args_trail \in {<<YES>>, <<NO>>} THEN {NO} ELSE {YES, NO} :
          IF id \in DOMAIN store
          THEN IF args_trail = <<>>
               THEN /\ st' = StEv("delete", FALSE, id, args_trail, NoOverwrite, NoId, TRUE)
                    /\ UNCHANGED store
               ELSE LET response == IF args_trail[1] \in {YES, NO} THEN args_trail[1] ELSE r
                    IN  /\ store' = IF response = YES THEN StorePop(store, id) ELSE store
                        /\ st' = StEv("delete", FALSE, id, <<response>>, NoOverwrite,
                                      NoId, FALSE)
          ELSE /\ st' = StEv("delete_not_found", FALSE, id, args_trail, NoOverwrite,
                             NoId, FALSE)
               /\ UNCHANGED store
    /\ UNCHANGED nonStoreVars

StoreNext ==
    \/ LoadFromString
    \/ LoadFromFile
    \/ LoadFileStep
    \/ SaveMessage
    \/ Remove
    \/ DeleteRun

(***************************************************************************)
(* The wire codec (Utils.msg_str_* and FixitClient.msg_to_list).  A raw    *)
(* message is a string, modelled as the sequence of its characters.        *)
(***************************************************************************)
DELIM_UNI == "="

\* ord() of the characters the model's messages are made of
ord(c) ==
    CASE c = SOH_BIN -> 1
      [] c = SOH_UNI -> 124
      [] c = DELIM_UNI -> 61
      [] c = "0" -> 48 [] c = "1" -> 49 [] c = "2" -> 50 [] c = "3" -> 51
      [] c = "4" -> 52 [] c = "5" -> 53 [] c = "6" -> 54 [] c = "7" -> 55
      [] c = "8" -> 56 [] c = "9" -> 57
      [] c = "A" -> 65 [] c = "F" -> 70 [] c = "X" -> 88 [] c = "Y" -> 89

DigitChars == <<"0", "1", "2", "3", "4", "5", "6", "7", "8", "9">>

\* str(n) of a natural number
RECURSIVE str(_)
str(n) == IF n < 10 THEN <<DigitChars[n + 1]>>
          ELSE str(n \div 10) \o <<DigitChars[(n % 10) + 1]>>

RECURSIVE zfill(_, _)
zfill(s, width) == IF Len(s) >= width THEN s ELSE zfill(<<"0">> \o s, width)

endswith(s, c) == Len(s) > 0 /\ s[Len(s)] = c

startswith(s, prefix) ==
    Len(s) >= Len(prefix) /\ SubSeq(s, 1, Len(prefix)) = prefix

\* s.split(sep): one more part than there are separators
RECURSIVE split(_, _)
split(s, sep) ==
    IF \A i \in 1..Len(s) : s[i] /= sep THEN <<s>>
    ELSE LET i == CHOOSE k \in 1..Len(s) : s[k] = sep /\ \A j \in 1..(k - 1) : s[j] /= sep
         IN  <<SubSeq(s, 1, i - 1)>> \o split(SubSeq(s, i + 1, Len(s)), sep)

\* s.split(sep, 1)
split1(s, sep) ==
    IF \A i \in 1..Len(s) : s[i] /= sep THEN <<s>>
    ELSE LET i == CHOOSE k \in 1..Len(s) : s[k] = sep /\ \A j \in 1..(k - 1) : s[j] /= sep
         IN  <<SubSeq(s, 1, i - 1), SubSeq(s, i + 1, Len(s))>>

RECURSIVE join(_, _)
join(sep, parts) ==
    IF parts = <<>> THEN <<>>
    ELSE IF Len(parts) = 1 THEN parts[1]
    ELSE parts[1] \o <<sep>> \o join(sep, Tail(parts))

replace(s, old, new) == [i \in 1..Len(s) |-> IF s[i] = old THEN new ELSE s[i]]

\* s.index(sub): the first position of sub in s, 0 when str.index raises
index(s, sub) ==
    LET at == {i \in 1..(Len(s) - Len(sub) + 1) : SubSeq(s, i, i + Len(sub) - 1) = sub}
    IN  IF at = {} THEN 0 ELSE CHOOSE i \in at : \A j \in at : i <= j

RECURSIVE SumOrd(_)
SumOrd(s) == IF s = <<>> THEN 0 ELSE ord(Head(s)) + SumOrd(Tail(s))

ChkModulus == 256
ChkWidth == 3

Returned(v) == [raised |-> "", out |-> v]
Raised(e) == [raised |-> e, out |-> <<>>]

\* the delimiter every field operation splits on
DelimiterOf(message) == IF endswith(message, SOH_UNI) THEN SOH_UNI ELSE SOH_BIN

FieldKey(field_num) == str(field_num) \o <<DELIM_UNI>>

\* the sum taken through the delimiter in front of CheckSum, nothing added
ChksumThroughDelimiter(message) ==
    LET m == replace(message, SOH_UNI, SOH_BIN)
        i == index(m, <<SOH_BIN>> \o FieldKey(10))
    IN  IF i = 0 THEN Raised("ValueError")
        ELSE Returned(zfill(str(SumOrd(SubSeq(m, 1, i)) % ChkModulus), ChkWidth))

msg_str_calc_chksum(message) ==
    LET m == replace(message, SOH_UNI, SOH_BIN)
        i == index(m, <<SOH_BIN>> \o FieldKey(10))
    IN  IF i = 0 THEN Raised("ValueError")
        ELSE Returned(zfill(str((SumOrd(SubSeq(m, 1, i - 1)) % ChkModulus) + 1), ChkWidth))

\* the positions of the fields that start with "<field_num>="
FieldHits(msg_fields, field_num) ==
    {i \in 1..Len(msg_fields) : startswith(msg_fields[i], FieldKey(field_num))}

\* the value is taken with field.solit("=", 1): str has no such attribute
msg_str_get_field(message, field_num) ==
    LET msg_fields == split(message, DelimiterOf(message))
    IN  IF FieldHits(msg_fields, field_num) = {} THEN Raised("FieldNotFound")
        ELSE Raised("AttributeError")

msg_str_set_field(message, field_num, value) ==
    LET SOH        == DelimiterOf(message)
        msg_fields == split(message, SOH)
        hits       == FieldHits(msg_fields, field_num)
    IN  IF hits = {} THEN join(SOH, msg_fields)
        ELSE LET i == CHOOSE k \in hits : \A j \in hits : k <= j
             IN  join(SOH, [msg_fields EXCEPT ![i] = FieldKey(field_num) \o value])

\* list.insert(pos, x) for pos >= 0
ListInsert(l, pos, x) ==
    LET k == IF pos > Len(l) THEN Len(l) ELSE pos
    IN  SubSeq(l, 1, k) \o <<x>> \o SubSeq(l, k + 1, Len(l))

msg_str_insert_field(message, pos, field_num, value) ==
    LET SOH == DelimiterOf(message)
    IN  join(SOH, ListInsert(split(message, SOH), pos, FieldKey(field_num) \o value))

msg_str_remove_field(message, field_num) ==
    LET SOH  == DelimiterOf(message)
        Keep(field) == ~startswith(field, FieldKey(field_num))
    IN  join(SOH, SelectSeq(split(message, SOH), Keep))

msg_to_list(message) ==
    LET msg_fields == split(message, DelimiterOf(message))
    IN  [i \in 1..Len(msg_fields) |-> split1(msg_fields[i], DELIM_UNI)]

\* what the engine answers to the successive parses of one str_to_msg call:
\* "Expected BodyLength" and "Expected CheckSum" errors, closed by another
\* InvalidMessage or by nothing (the parse succeeds)
RECURSIVE ParseReports(_)
ParseReports(n) ==
    IF n = 0 THEN {<<>>, <<"Invalid">>}
    ELSE ParseReports(n - 1)
         \cup {<<e>> \o r : e \in {"BodyLength", "CheckSum"}, r \in ParseReports(n - 1)}

\* the value the engine's error message names
ExpectedValue(error) == IF error = "BodyLength" THEN <<"5">> ELSE <<"0", "0", "1">>

\* FixitClient.str_to_msg for the answers reports: the string parsed last,
\* whether the failure was written out, and the number of repaired retries
RECURSIVE StrToMsgRepair(_, _, _)
StrToMsgRepair(msg_str, reports, n) ==
    LET m == IF endswith(msg_str, SOH_UNI) THEN replace(msg_str, SOH_UNI, SOH_BIN)
             ELSE msg_str
    IN  IF reports = <<>> THEN [out |-> m, raised |-> "", n |-> n]
        ELSE IF Head(reports) \in {"BodyLength", "CheckSum"}
        THEN StrToMsgRepair(
                 msg_str_set_field(replace(m, SOH_BIN, SOH_UNI),
                                   IF Head(reports) = "BodyLength" THEN 9 ELSE 10,
                                   ExpectedValue(Head(reports))),
                 Tail(reports), n + 1)
        ELSE [out |-> <<>>, raised |-> "reported", n |-> n]

\* ---- the raw messages the codec is applied to ----
Fld(field_num, value) == FieldKey(field_num) \o value

BodyFields == {Fld(58, <<"X", "A">>), Fld(55, <<"X">>), Fld(110, <<"5">>)}

RECURSIVE Bodies(_)
Bodies(n) ==
    IF n = 0 THEN {<<>>}
    ELSE Bodies(n - 1) \cup {b \o <<f>> : b \in Bodies(n - 1), f \in BodyFields}

\* with or without a CheckSum field, either delimiter, with or without the
\* trailing delimiter
RawMessages ==
    { join(d, <<Fld(8, <<"F">>)>> \o b \o t) \o (IF e THEN <<d>> ELSE <<>>) :
        b \in Bodies(MaxBody), t \in {<<>>, <<Fld(10, <<"0", "0", "0">>)>>},
        d \in {SOH_BIN, SOH_UNI}, e \in BOOLEAN }

EditTags == {58, 55, 10}
EditValues == {<<"1">>, <<"Y", "9">>}
EditPositions == {0, 2}

\* cd records the codec call made last: its arguments, its input and result
Cd(op, field_num, value, pos, r) ==
    [op |-> op, tag |-> field_num, val |-> value, pos |-> pos, in |-> raw,
     out |-> r.out, raised |-> r.raised, n |-> 0]

CodecInit ==
    /\ raw = <<>>
    /\ edits = 0
    /\ cd = [op |-> "none", tag |-> 0, val |-> <<>>, pos |-> 0, in |-> <<>>,
             out |-> <<>>, raised |-> "", n |-> 0]

nonCodecVars == <<engVars, cfgVars, trkVars, seqVars, logVars, ignored_messages, pipeVars,
                  fgVars, ev, fuzzVars, concVars, storeVars, hq, peer>>

\* message edit: msg_obj = Utils.msg_str_set_field(msg_obj, f_num, f_value)
SetField ==
    \E t \in EditTags, v \in EditValues :
        /\ edits < MaxEdits
        /\ raw' = msg_str_set_field(raw, t, v)
        /\ edits' = edits + 1
        /\ cd' = Cd("set", t, v, 0, Returned(raw'))
        /\ UNCHANGED nonCodecVars

InsertField ==
    \E p \in EditPositions, t \in EditTags, v \in EditValues :
        /\ edits < MaxEdits
        /\ raw' = msg_str_insert_field(raw, p, t, v)
        /\ edits' = edits + 1
        /\ cd' = Cd("insert", t, v, p, Returned(raw'))
        /\ UNCHANGED nonCodecVars

RemoveField ==
    \E t \in EditTags :
        /\ edits < MaxEdits
        /\ raw' = msg_str_remove_field(raw, t)
        /\ edits' = edits + 1
        /\ cd' = Cd("remove", t, <<>>, 0, Returned(raw'))
        /\ UNCHANGED nonCodecVars

GetField ==
    \E t \in EditTags :
        /\ cd' = Cd("get", t, <<>>, 0, msg_str_get_field(raw, t))
        /\ UNCHANGED <<raw, edits, nonCodecVars>>

CalcChksum ==
    /\ cd' = Cd("chksum", 10, <<>>, 0, msg_str_calc_chksum(raw))
    /\ UNCHANGED <<raw, edits, nonCodecVars>>

MsgToList ==
    /\ cd' = Cd("to_list", 0, <<>>, 0, Returned(msg_to_list(raw)))
    /\ UNCHANGED <<raw, edits, nonCodecVars>>

\* str_to_msg(raw): raw itself is left as it is
StrToMsg ==
    \E reports \in ParseReports(MaxRepairs) :
        LET r == StrToMsgRepair(raw, reports, 0)
        IN  /\ cd' = [Cd("parse", 0, reports, 0, r) EXCEPT !.n = r.n]
            /\ UNCHANGED <<raw, edits, nonCodecVars>>

CodecNext ==
    \/ SetField
    \/ InsertField
    \/ RemoveField
    \/ GetField
    \/ CalcChksum
    \/ MsgToList

(***************************************************************************)
(* The history query (get_session_message_log, "history list")             *)
(***************************************************************************)
\* the name the data dictionary gives a message type, in capitals
msg_type_name(type) ==
    CASE type = MsgType_Logon -> "LOGON"
      [] type = MsgType_Logout -> "LOGOUT"
      [] type = MsgType_Heartbeat -> "HEARTBEAT"
      [] type = MsgType_Order -> "NEWORDERSINGLE"
      [] type = MsgType_ExecReport -> "EXECUTIONREPORT"

\* the content of a logged message, in capitals (the search ignores case)
upper(body) ==
    CASE body = "order" -> "ORDER"
      [] body = "exec" -> "EXEC"
      [] body = "logon" -> "LOGON"
      [] body = "hb" -> "HB"
      [] OTHER -> body

\* re.search(".*{filter}.*", text, re.IGNORECASE), text in capitals
re_search(filter, text) == filter = ".*" \/ filter = text

\* the condition of the list comprehension
FilterMatches(filter, m) ==
    \/ re_search(filter, upper(m.msg.body))
    \/ re_search(filter, IF m.msg.valid THEN msg_type_name(m.msg.type) ELSE "UNKNOWN")

\* l[-depth:] for depth >= 0
LastItems(l, depth) ==
    IF depth = 0 \/ depth >= Len(l) THEN l
    ELSE SubSeq(l, Len(l) - depth + 1, Len(l))

\* the depth applied to the log, the filter to what is left
DepthBeforeFilter(messages, filter, depth) ==
    LET Match(m) == FilterMatches(filter, m)
    IN  SelectSeq(LastItems(messages, depth), Match)

get_session_message_log(messages, filter, depth) ==
    LET Match(m) == FilterMatches(filter, m)
    IN  LastItems(SelectSeq(messages, Match), depth)

Filters == {".*", "ORDER", "EXECUTIONREPORT", "LOGON"}

HistInit == hq = [filter |-> ".*", depth |-> 0, len |-> 0, out |-> <<>>]

\* "history list [DEPTH] [FILTER]"
HistoryList ==
    /\ \E filter \in Filters, depth \in 0..MaxDepth :
          hq' = [filter |-> filter, depth |-> depth, len |-> Len(session_message_log),
                 out |-> get_session_message_log(session_message_log, filter, depth)]
    /\ UNCHANGED <<engVars, cfgVars, trkVars, seqVars, logVars, ignored_messages, pipeVars,
                   fgVars, ev, fuzzVars, concVars, storeVars, codecVars, peer>>

(***************************************************************************)
(* A second session of the same application.  The per-session dictionaries *)
(* are keyed by sessionID.toString(); the variables above are the entries  *)
(* of the first session, peer holds the entries of the second.             *)
(***************************************************************************)
PeerIntervals == {30, 60}

\* the entries _initialize_session writes for a session configured with
\* the reconnect interval i
InitializedSession(i) ==
    [created |-> TRUE, settings |-> [ReconnectInterval |-> i],
     attempting_logon |-> FALSE, message_log |-> <<>>, message_count |-> -1,
     NextExpSeqNum |-> None, NextSenderSeqNum |-> None,
     loggedon |-> FALSE, logon_attempts |-> 0]

PeerInit == peer = [InitializedSession(INVALID) EXCEPT !.created = FALSE]

\* onCreate of the second session: _initialize_session also stores that
\* session's interval in the application's config_recon_int
OnCreatePeer ==
    /\ ~peer.created
    /\ \E i \in PeerIntervals :
          /\ peer' = InitializedSession(i)
          /\ config_recon_int' = i
    /\ UNCHANGED <<engVars, session_settings, trkVars, seqVars, logVars, ignored_messages,
                   pipeVars, fgVars, ev, fuzzVars, concVars, storeVars, codecVars, hq>>

(***************************************************************************)
(* Session tracker specification                                           *)
(***************************************************************************)
Threads == {"fg", "cb"}


\* no fuzz run and no hook is in progress, and the store is empty
ToolInit ==
    /\ fuzz_fields = <<>>
    /\ fuzz_dict = <<>>
    /\ fuzz_i = 0
    /\ fuzz_j = 0
    /\ counter = 0
    /\ attempts = 0
    /\ polls = 0
    /\ sending_time = 0
    /\ csv_file = <<>>
    /\ t_pc = [t \in Threads |-> "idle"]
    /\ t_obj = [t \in Threads |-> NoEntry]
    /\ t_tmp = [t \in Threads |-> 0]
    /\ StoreInit
    /\ HistInit
    /\ PeerInit

\* no raw message is being edited
AuxInit ==
    /\ ToolInit
    /\ CodecInit

\* a session as create_session leaves it
SessionInit ==
    /\ engineEnabled = FALSE
    /\ engState = "disconnected"
    /\ \E i \in ConfigIntervals, t \in ConfigLogonTimeouts :
          /\ session_settings =
                 IF t = INVALID THEN [ReconnectInterval |-> i]
                 ELSE [ReconnectInterval |-> i, LogonTimeout |-> t]
          /\ config_recon_int = i
    /\ session_attempting_logon = FALSE
    /\ session_logon_attempts = 0
    /\ session_loggedon = FALSE
    /\ session_NextSenderSeqNum = None
    /\ session_NextExpSeqNum = None
    /\ session_message_count = -1
    /\ session_message_log = <<>>
    /\ log_file = <<>>
    /\ uuid_count = 0
    /\ ignored_messages \in {{MsgType_Heartbeat}, {}}
    /\ message_queue = <<>>
    /\ outbound = <<>>
    /\ pc = "idle"
    /\ elapsed = 0
    /\ threshhold = 0
    /\ ev = Ev("onCreate", "", NoMsg, TRUE, 0)
    /\ nLogCalls = 0
    /\ consecutive = 0

Init ==
    /\ SessionInit
    /\ AuxInit

Next ==
    \/ Logon
    \/ LogonPoll
    \/ Logout
    \/ LogoutPoll
    \/ EngineSendLogon
    \/ EngineLogonAccepted
    \/ EngineLogonRejected
    \/ EngineDisconnect
    \/ EngineSendLogout
    \/ EngineLogoutAck
    \/ InterceptorForward

Spec == Init /\ [][Next]_vars


(***************************************************************************)
(* Interception pipeline specification: the session has logged on (logon() *)
(* returned after one Logon was sent and answered), then messages are sent *)
(* and received.                                                           *)
(***************************************************************************)
PipeInit ==
    /\ engineEnabled = TRUE
    /\ engState = "logged_on"
    /\ session_settings = [ReconnectInterval |-> DEFAULT_RECONNECT_INTERVAL]
    /\ config_recon_int = DEFAULT_RECONNECT_INTERVAL
    /\ session_attempting_logon = FALSE
    /\ session_logon_attempts = 0
    /\ session_loggedon = TRUE
    /\ session_NextSenderSeqNum = None
    /\ session_NextExpSeqNum = None
    /\ session_message_count = 1
    /\ LET out == LogFinalObj(ADM_O, LogonMsg, <<>>, 0)
           in  == LogFinalObj(ADM_I, LogonMsg, <<>>, 1)
       IN  /\ log_file = <<out, in>>
           /\ session_message_log = <<HistoryEntry(0, out), HistoryEntry(1, in)>>
    /\ uuid_count = 2
    /\ ignored_messages \in {{MsgType_Heartbeat}, {}}
    /\ message_queue = <<>>
    /\ outbound = <<>>
    /\ pc = "idle"
    /\ elapsed = 0
    /\ threshhold = LogonThreshhold(DEFAULT_RECONNECT_INTERVAL, INVALID)
    /\ ev = Ev("logon", "success", NoMsg, FALSE, 0)
    /\ nLogCalls = 2
    /\ consecutive = 0
    /\ AuxInit

PipeNext ==
    \/ SendMessage
    \/ SendRawData
    \/ EngineHeartbeatOut
    \/ EngineHeartbeatIn
    \/ EngineFromApp
    \/ EngineDisconnect
    \/ InterceptorForward

SpecPipe == PipeInit /\ [][PipeNext]_vars

\* the store is created with the CLI, before any session logs on
StoreSpecInit ==
    /\ Init
    /\ ignored_messages = {MsgType_Heartbeat}
    /\ get_session_config("LogonTimeout") = INVALID

SpecStore == StoreSpecInit /\ [][StoreNext]_vars

\* the session tracker of the first session while a second one is created
SessNext ==
    \/ OnCreatePeer
    \/ Next

SpecSessions == Init /\ [][SessNext]_vars

\* the codec is applied to any raw message the user loads or types
CodecSpecInit ==
    /\ SessionInit
    /\ ignored_messages = {MsgType_Heartbeat}
    /\ get_session_config("LogonTimeout") = INVALID
    /\ ToolInit
    /\ raw \in RawMessages
    /\ edits = 0
    /\ cd = [op |-> "none", tag |-> 0, val |-> <<>>, pos |-> 0, in |-> <<>>,
             out |-> <<>>, raised |-> "", n |-> 0]

SpecCodec == CodecSpecInit /\ [][CodecNext]_vars

\* the parses of the raw messages, whatever the engine answers
SpecParse == CodecSpecInit /\ [][StrToMsg]_vars

\* a logged-on session whose log grows while the history is listed
HistNext ==
    \/ SendMessage
    \/ EngineFromApp
    \/ EngineHeartbeatIn
    \/ InterceptorForward
    \/ HistoryList

SpecHistory == PipeInit /\ [][HistNext]_vars


(***************************************************************************)
(* The fuzzing engine (Fuzz._fuzz_message_fields, foreground thread)       *)
(***************************************************************************)
FuzzFieldLists == {<<55>>, <<8, 55>>}

\* the lines of a dictionary file
FuzzDict == <<"p1", "p2">>

\* _generate_fuzz_data: one payload per character that is no delimiter
\* (a single one stands for them)
_generate_fuzz_data == <<"g1">>

\* what the dict_file argument names: no file, a file that is read, a file
\* that open() fails on
DictFiles == {"missing", "readable", "unreadable"}

\* Fuzz.run turns an argument that is no file into None; _load_dict_file
\* returns the lines read, or the empty list after printing the OSError
LoadedDict(dict_file) ==
    IF dict_file = "missing" THEN _generate_fuzz_data
    ELSE IF dict_file = "readable" THEN FuzzDict
    ELSE <<>>

\* the denylist without BeginString
invalid_fieldsHeaderless == {49, 56, 52}

invalid_fields == {8, 49, 56, 52}

_valid_field(field) == field \notin invalid_fields

\* the original message with the field replaced by the payload and
\* SendingTime (52) set to sending_time
FuzzMessage(payload, time, valid) ==
    [msg_to_str(Mk(MsgType_Order, unicode_escape(payload)), FALSE)
        EXCEPT !.time = time, !.valid = valid]

\* "message fuzz": the run starts
Fuzz ==
    /\ pc = "idle"
    /\ fuzz_fields = <<>>
    /\ \E fields \in FuzzFieldLists : fuzz_fields' = fields
    /\ \E dict_file \in DictFiles :
          /\ fuzz_dict' = LoadedDict(dict_file)
          /\ ev' = Ev("fuzz", dict_file, NoMsg, FALSE, 0)
    /\ fuzz_i' = 1
    /\ fuzz_j' = 1
    /\ counter' = 0
    /\ csv_file' = <<>>
    /\ pc' = "fuzz_loop"
    /\ UNCHANGED <<engVars, cfgVars, trkVars, seqVars, logVars, ignored_messages, pipeVars,
                   elapsed, threshhold, attempts, polls, sending_time, concVars, libVars>>

\* the head of the two for loops: the run ends, a denylisted field is
\* skipped, or the next payload is sent with send_message
FuzzStep ==
    /\ pc = "fuzz_loop"
    /\ IF fuzz_i > Len(fuzz_fields)
       THEN /\ pc' = "idle"
            /\ ev' = Ev("fuzz", "done", NoMsg, FALSE, 0)
            /\ UNCHANGED <<logVars, pipeVars, fuzz_i, attempts, polls, sending_time>>
       ELSE IF ~_valid_field(fuzz_fields[fuzz_i])
       THEN /\ fuzz_i' = fuzz_i + 1
            /\ ev' = Ev("fuzz", "skip", NoMsg, FALSE, 0)
            /\ UNCHANGED <<logVars, pipeVars, pc, attempts, polls, sending_time>>
       ELSE IF fuzz_dict = <<>>
       THEN /\ fuzz_i' = fuzz_i + 1
            /\ ev' = Ev("fuzz", "no payload", NoMsg, FALSE, 0)
            /\ UNCHANGED <<logVars, pipeVars, pc, attempts, polls, sending_time>>
       ELSE /\ sending_time' = sending_time + 1
            /\ \E valid \in BOOLEAN :
                  SendMessageH(FuzzMessage(fuzz_dict[fuzz_j], sending_time + 1, valid),
                               message_queue)
            /\ attempts' = 0
            /\ polls' = 0
            /\ pc' = "fuzz_poll"
            /\ UNCHANGED fuzz_i
    /\ UNCHANGED <<engVars, cfgVars, trkVars, seqVars, ignored_messages,
                   elapsed, threshhold, fuzz_fields, fuzz_dict, fuzz_j, counter, csv_file,
                   concVars, libVars>>

\* get_session_message_log(session_num, depth=1)[0]["msg"]
LastMessage == session_message_log[Len(session_message_log)].msg

\* the value of `attempts` after an iteration that found no response
AttemptsAfterSleep(n) == n

\* after the loop: the CSV row, the counter, the next payload or field
FuzzRecord(response) ==
    /\ csv_file' = Append(csv_file, [id |-> counter, payload |-> fuzz_dict[fuzz_j],
                                     response |-> response])
    /\ counter' = counter + 1
    /\ IF fuzz_j < Len(fuzz_dict)
       THEN fuzz_j' = fuzz_j + 1 /\ UNCHANGED fuzz_i
       ELSE fuzz_j' = 1 /\ fuzz_i' = fuzz_i + 1
    /\ pc' = "fuzz_loop"

\* one iteration of "while attempts < 10", and what follows the loop
FuzzPoll ==
    /\ pc = "fuzz_poll"
    /\ session_message_log /= <<>>
    /\ IF ~(attempts < FuzzMaxAttempts)
       THEN /\ FuzzRecord(NoMsg)
            /\ ev' = Ev("fuzz", "no response", NoMsg, FALSE, 0)
            /\ UNCHANGED <<attempts, polls>>
       ELSE IF LastMessage.time /= sending_time
       THEN /\ polls' = polls + 1
            /\ FuzzRecord(LastMessage)
            /\ ev' = Ev("fuzz", "response", LastMessage, FALSE, 0)
            /\ UNCHANGED attempts
       ELSE /\ polls < MaxPolls
            /\ polls' = polls + 1
            /\ attempts' = AttemptsAfterSleep(attempts)
            /\ ev' = Ev("fuzz", "polling", NoMsg, FALSE, 0)
            /\ UNCHANGED <<pc, fuzz_i, fuzz_j, counter, csv_file>>
    /\ UNCHANGED <<engVars, cfgVars, trkVars, seqVars, logVars, ignored_messages, pipeVars,
                   elapsed, threshhold, fuzz_fields, fuzz_dict, sending_time, concVars,
                   libVars>>

FuzzNext ==
    \/ Fuzz
    \/ FuzzStep
    \/ FuzzPoll
    \/ EngineFromApp
    \/ EngineHeartbeatIn
    \/ InterceptorForward

SpecFuzz == PipeInit /\ [][FuzzNext]_vars

(***************************************************************************)
(* _log_message run by two threads: the foreground thread (toApp, inside   *)
(* sendToTarget) and the engine's callback thread (fromApp).  The steps    *)
(* are the statements at which the interpreter can switch threads.         *)
(***************************************************************************)
HookRoute(t) == IF t = "fg" THEN APP_O ELSE APP_I

HookMessage(t) == IF t = "fg" THEN AppMsg ELSE ResponseMsg

\* _log_message up to the TestReqID lookup
LogBegin(t) ==
    /\ t_pc[t] = "idle"
    /\ nLogCalls < MaxLogCalls
    /\ uuid_count' = IF QueueEmpty(message_queue) THEN gen_uuid(uuid_count)
                     ELSE gen_uuid(gen_uuid(uuid_count))
    /\ log_file' = log_file \o LogFileRows(HookRoute(t), HookMessage(t), message_queue, uuid_count)
    /\ nLogCalls' = nLogCalls + 1
    /\ IF LogOutcome(HookMessage(t), message_queue, ignored_messages) = "append"
       THEN /\ t_pc' = [t_pc EXCEPT ![t] = "gen_load"]
            /\ t_obj' = [t_obj EXCEPT ![t] =
                   HistoryEntry(-1, LogFinalObj(HookRoute(t), HookMessage(t),
                                                message_queue, uuid_count))]
       ELSE UNCHANGED <<t_pc, t_obj>>
    /\ ev' = Ev("_log_message", t, HookMessage(t), FALSE, 0)
    /\ UNCHANGED <<engVars, cfgVars, trkVars, seqVars, session_message_count,
                   session_message_log, ignored_messages, pipeVars, fgVars, fuzzVars, libVars, t_tmp>>

\* _gen_HistoryID: self.session_message_count[k] += 1, the load
GenLoad(t) ==
    /\ t_pc[t] = "gen_load"
    /\ t_tmp' = [t_tmp EXCEPT ![t] = session_message_count]
    /\ t_pc' = [t_pc EXCEPT ![t] = "gen_store"]
    /\ ev' = Ev("_gen_HistoryID", t, NoMsg, FALSE, 0)
    /\ UNCHANGED <<engVars, cfgVars, trkVars, seqVars, logVars, ignored_messages, pipeVars,
                   fgVars, fuzzVars, libVars, t_obj>>

\* _gen_HistoryID: self.session_message_count[k] += 1, the store
GenStore(t) ==
    /\ t_pc[t] = "gen_store"
    /\ session_message_count' = _gen_HistoryID(t_tmp[t])
    /\ t_pc' = [t_pc EXCEPT ![t] = "gen_return"]
    /\ ev' = Ev("_gen_HistoryID", t, NoMsg, FALSE, 1)
    /\ UNCHANGED <<engVars, cfgVars, trkVars, seqVars, session_message_log, log_file,
                   uuid_count, nLogCalls, ignored_messages, pipeVars, fgVars, fuzzVars, libVars,
                   t_obj, t_tmp>>

\* _gen_HistoryID: return self.session_message_count[k]
GenReturn(t) ==
    /\ t_pc[t] = "gen_return"
    /\ t_obj' = [t_obj EXCEPT ![t].id = session_message_count]
    /\ t_pc' = [t_pc EXCEPT ![t] = "append"]
    /\ ev' = Ev("_gen_HistoryID", t, NoMsg, FALSE, 2)
    /\ UNCHANGED <<engVars, cfgVars, trkVars, seqVars, logVars, ignored_messages, pipeVars,
                   fgVars, fuzzVars, libVars, t_tmp>>

\* self.session_message_log[k].append(msg_obj)
LogAppend(t) ==
    /\ t_pc[t] = "append"
    /\ session_message_log' = Append(session_message_log, t_obj[t])
    /\ t_pc' = [t_pc EXCEPT ![t] = "idle"]
    /\ ev' = Ev("_log_message", t, NoMsg, FALSE, 1)
    /\ UNCHANGED <<engVars, cfgVars, trkVars, seqVars, session_message_count, log_file,
                   uuid_count, nLogCalls, ignored_messages, pipeVars, fgVars, fuzzVars, libVars,
                   t_obj, t_tmp>>

ToAppThread == LogBegin("fg") \/ GenLoad("fg") \/ GenStore("fg") \/ GenReturn("fg") \/ LogAppend("fg")

FromAppThread == LogBegin("cb") \/ GenLoad("cb") \/ GenStore("cb") \/ GenReturn("cb") \/ LogAppend("cb")

ConcNext ==
    \/ ToAppThread
    \/ FromAppThread

SpecConc == PipeInit /\ [][ConcNext]_vars

(***************************************************************************)
(* Properties                                                              *)
(***************************************************************************)
\* the step is a call of _log_message from toApp or toAdmin
TransmitHookStep == nLogCalls' = nLogCalls + 1 /\ ev'.op \in {"toApp", "toAdmin"}

\* the string form the log shows for a message / for a queued substitution
ShownOriginal(m) == [m EXCEPT !.kind = "str", !.delim = SOH_UNI]

ShownSubstitute(m) ==
    [m EXCEPT !.kind = "str", !.delim = SOH_UNI, !.body = unicode_escape(m.body)]

SubstitutionConsumedOnce ==
    [][ message_queue /= <<>> =>
          \/ /\ Len(message_queue') >= Len(message_queue)
             /\ SubSeq(message_queue', 1, Len(message_queue)) = message_queue
          \/ /\ ev'.op = "forward" /\ ev'.path = "substituted"
             /\ ev'.msg = Head(message_queue)
             /\ message_queue' = Tail(message_queue) ]_vars

\* a substitution was peeked by a hook, then forwarded and removed
SubstitutionConsumedOnceWitness ==
    /\ ev.op = "forward" /\ ev.path = "substituted"
    /\ message_queue = <<>>
    /\ \E i \in 1..Len(log_file) : log_file[i].state = "INTERCEPTED"

\* C4 (as claimed): when logout() has returned, on each of its paths, the
\* reconnect interval is the one the session had when logout() was called.
LogoutRestoresInterval ==
    (ev.op = "logout" /\ ev.path \in {"early", "confirmed", "timeout"})
        => get_session_config("ReconnectInterval") = ev.n

\* C5: a logon() that is polling returns; the loop does not go on once the
\* deadline has passed; and when it returns because of the deadline it has
\* called Session.logout() exactly once and the attempting-logon flag is
\* false; when it returns because the engine reports the session logged on
\* it has not called Session.logout() and the flag is false as well.
LogonReturns ==
    /\ [][ (pc = "logon_poll" /\ ev'.op = "logon" /\ ~isLoggedOn
              /\ elapsed > threshhold) => pc' = "idle" /\ ev'.path = "timeout" ]_vars
    /\ []( (ev.op = "logon" /\ ev.path = "timeout")
             => (pc = "idle" /\ ev.lo /\ ev.n = 1 /\ ~engineEnabled
                 /\ ~session_attempting_logon) )
    /\ []( (ev.op = "logon" /\ ev.path = "success")
             => (pc = "idle" /\ ~ev.lo /\ ~session_attempting_logon) )
    /\ ( (pc = "logon_poll") ~> (pc = "idle") )

LogonReturnsWitness ==
    /\ ev.op = "logon" /\ ev.path = "timeout"
    /\ ~isLoggedOn
    /\ elapsed > DEFAULT_RECONNECT_INTERVAL + DEFAULT_LOGON_TIMEOUT

\* C6 (as claimed): the deadline of every logon() is the configured
\* reconnect interval plus the logon timeout.
LogonDeadlineConfigured ==
    pc = "logon_poll" =>
        threshhold = config_recon_int +
                     (IF get_session_config("LogonTimeout") /= INVALID
                      THEN get_session_config("LogonTimeout")
                      ELSE DEFAULT_LOGON_TIMEOUT)

\* the step is toAdmin for a Logon message
ToAdminLogonStep == ev'.op = "toAdmin" /\ ev'.msg.type = MsgType_Logon

\* C7 (as claimed): an outgoing Logon applies each recorded override and
\* clears it.
OverridesOneShot ==
    [][ ToAdminLogonStep =>
          /\ Truthy(session_NextSenderSeqNum) =>
                 /\ ev'.msg.seq = session_NextSenderSeqNum
                 /\ session_NextSenderSeqNum' = None
          /\ Truthy(session_NextExpSeqNum) =>
                 /\ ev'.msg.nextExp = session_NextExpSeqNum
                 /\ session_NextExpSeqNum' = None ]_vars

\* C8: toAdmin calls Session.logout() for a Logon exactly when it is the
\* fifth or a later Logon since the last onLogon (or since the session was
\* created); it then reports the error and leaves the engine disabled; and
\* onLogon puts the attempt counter back to zero.
LogonCeilingHardStop ==
    /\ [][ ToAdminLogonStep =>
             /\ ev'.lo <=> (consecutive' >= LogonAttemptCeiling)
             /\ ev'.lo => (~engineEnabled' /\ ev'.path = "ceiling")
             /\ ~ev'.lo => (engineEnabled' = engineEnabled) ]_vars
    /\ [](ev.op = "onLogon" => session_logon_attempts = 0)

\* a sixth Logon in a row, again answered with a forced logout
LogonCeilingHardStopWitness ==
    /\ ev.op = "toAdmin" /\ ev.msg.type = MsgType_Logon
    /\ ev.lo /\ ~engineEnabled
    /\ consecutive > LogonAttemptCeiling

\* C9 (as claimed): a logout() called while the session is logged on calls
\* Session.logout().
LogoutTriggersEngineLogout ==
    [][ (pc = "idle" /\ ev'.op = "logout" /\ isLoggedOn) => ev'.lo ]_vars

SpecLive == Spec /\ WF_vars(LogonPoll)


\* C1 (as claimed): after a fuzz transmission the history log is polled at
\* most 10 times before the run goes on to the next payload.
FuzzWaitBounded == polls <= FuzzMaxAttempts

\* C10 (as claimed): history ids are never reused and the in-memory log is in
\* strictly increasing id order, whatever the interleaving of the two threads.
HistoryIdsIncreasing ==
    \A i \in 1..Len(session_message_log) : \A j \in 1..Len(session_message_log) :
        i < j => session_message_log[i].id < session_message_log[j].id

\* the step is a call of _log_message for a heartbeat without TestReqID while
\* heartbeats are ignored
IgnoredHeartbeatStep ==
    /\ nLogCalls' = nLogCalls + 1
    /\ ev'.msg.type = MsgType_Heartbeat /\ ~ev'.msg.testReq
    /\ MsgType_Heartbeat \in ignored_messages

SaveStep == st'.op \in {"load_string", "load_file_step", "save"}

\* every entry the store had is still there, unchanged
EntriesKept == \A k \in DOMAIN store : k \in DOMAIN store' /\ store'[k] = store[k]

\* C12 (as claimed): in a file load, once YES_ALL or NO_ALL has been given,
\* every later save of that load whose id collides is not prompted for; with
\* YES_ALL it overwrites the existing entry under its id, with NO_ALL it
\* keeps the entries and stores the message under an unused qualifier.
RememberedResponseApplied ==
    [][ (st.op = "load_file_step" /\ st.given /\ st'.op = "load_file_step"
           /\ st'.cand \in DOMAIN store) =>
          /\ ~st'.prompted
          /\ auto_resp = YES_ALL =>
                 /\ st'.id = st'.cand
                 /\ DOMAIN store' = DOMAIN store
                 /\ store'[st'.cand].msg = msg_to_str(Head(load_left), FALSE)
          /\ auto_resp = NO_ALL =>
                 /\ st'.id \notin DOMAIN store
                 /\ st'.id.base = st'.cand.base
                 /\ EntriesKept ]_vars

\* C13 (as claimed): when the first save of a file load, a string load or a
\* message save starts, no response is remembered.
ResponseResetBetweenBatches ==
    [][ (SaveStep /\ st'.first) => auto_resp = NoResp ]_vars

\* C14 (as claimed): two consecutive saves without explicit id of messages of
\* the same type, both made with YES_ALL, give ids that differ in the
\* qualifier only, the second being the first plus one, and both ids are in
\* the store afterwards.
ConsecutiveSavesIncrement ==
    [][ (st.op \in {"load_string", "load_file_step"} /\ ~st.raised
           /\ st'.op \in {"load_string", "load_file_step"} /\ ~st'.raised
           /\ st'.cand = st.cand
           /\ st.input = <<YES_ALL>> /\ st'.input = <<YES_ALL>>) =>
          /\ st'.id.base = st.id.base
          /\ st'.id.q = st.id.q + 1
          /\ {st.id, st'.id} \subseteq DOMAIN store' ]_vars

\* C15 (as claimed): a save whose overwrite is not confirmed returns, for any
\* store and any candidate id, an id that was not a key of the store and is
\* the candidate with its integer qualifier incremented zero or more times,
\* and leaves every entry of the store unchanged.
CollisionResolutionTerminates ==
    [][ (SaveStep /\ ~st'.ow) =>
          /\ ~st'.raised
          /\ st'.id \notin DOMAIN store
          /\ st'.id.base = st'.cand.base
          /\ st'.cand.q >= 0 /\ st'.id.q >= st'.cand.q
          /\ EntriesKept ]_vars

\* C16 (as claimed): deleting an id that is not in the store returns without
\* raising and leaves the store unchanged.
DeleteAbsentSilent ==
    [][ (st'.op \in {"remove", "delete", "delete_not_found"}
           /\ st'.cand \notin DOMAIN store) =>
          /\ ~st'.raised
          /\ store' = store ]_vars

(***************************************************************************)
(* Properties of the wire codec (SpecCodec)                                *)
(***************************************************************************)
Delimiters == {SOH_BIN, SOH_UNI}

\* the delimiter a raw message is written with
UsedDelimiter(m) == IF \E i \in 1..Len(m) : m[i] = SOH_UNI THEN SOH_UNI ELSE SOH_BIN

\* the position of the field field_num in a list of fields, 0 if it has none
FirstHit(fields, field_num) ==
    LET hits == FieldHits(fields, field_num)
    IN  IF hits = {} THEN 0 ELSE CHOOSE k \in hits : \A j \in hits : k <= j

\* C17 (as claimed): for a raw message that ends with its delimiter and has
\* a field t, reading t right after setting it to v returns v, and the set
\* kept the number of fields and every other field in its place.
SetGetRoundTrip ==
    [][ (cd.op = "set" /\ cd'.op = "get" /\ cd'.tag = cd.tag
           /\ endswith(cd.in, UsedDelimiter(cd.in))
           /\ FirstHit(split(cd.in, UsedDelimiter(cd.in)), cd.tag) > 0) =>
          LET d == UsedDelimiter(cd.in)
              F == split(cd.in, d)
              G == split(cd.out, d)
              k == FirstHit(F, cd.tag)
          IN  /\ cd'.raised = ""
              /\ cd'.out = cd.val
              /\ Len(G) = Len(F)
              /\ \A i \in 1..Len(F) : i /= k => G[i] = F[i] ]_vars

\* the position of the delimiter in front of the first CheckSum field, 0 if
\* the message has none
ChecksumAt(m) ==
    LET at == {p \in 1..(Len(m) - 3) :
                  m[p] \in Delimiters /\ SubSeq(m, p + 1, p + 3) = <<"1", "0", "=">>}
    IN  IF at = {} THEN 0 ELSE CHOOSE p \in at : \A q \in at : p <= q

\* the character codes of s added up, the printable delimiter counted as SOH
RECURSIVE SumWire(_)
SumWire(s) ==
    IF s = <<>> THEN 0
    ELSE (IF Head(s) = SOH_UNI THEN 1 ELSE ord(Head(s))) + SumWire(Tail(s))

\* n < 1000 written with three decimal digits
ThreeDigits(n) ==
    <<DigitChars[(n \div 100) + 1], DigitChars[((n \div 10) % 10) + 1],
      DigitChars[(n % 10) + 1]>>

\* C18 (as claimed): the checksum of a message with a CheckSum field is the
\* sum of the characters in front of that field modulo 256, written with
\* exactly three decimal digits, so between 000 and 255.
ChecksumModulo256 ==
    (cd.op = "chksum" /\ ChecksumAt(cd.in) > 0) =>
        /\ cd.raised = ""
        /\ Len(cd.out) = 3
        /\ cd.out = ThreeDigits(SumWire(SubSeq(cd.in, 1, ChecksumAt(cd.in))) % 256)

\* what may follow the summed characters: a CheckSum field behind either
\* delimiter, with or without further fields
ChecksumTails ==
    { <<d>> \o Fld(10, v) \o t :
        d \in Delimiters, v \in {<<>>, <<"9", "9", "9">>},
        t \in {<<>>, <<SOH_BIN>> \o Fld(55, <<"X">>) \o <<SOH_BIN>>} }

\* C19: the checksum of a message with a CheckSum field is the sum of the
\* character codes in front of the delimiter that precedes the first
\* CheckSum field (the printable delimiter counted as SOH), modulo 256, plus
\* one, zero-padded to three characters; it is the same for every message
\* that has these characters in front of its first CheckSum field.
ChecksumAsImplemented ==
    (cd.op = "chksum" /\ ChecksumAt(cd.in) > 0) =>
        LET prefix == SubSeq(cd.in, 1, ChecksumAt(cd.in) - 1)
        IN  /\ cd.raised = ""
            /\ cd.out = ThreeDigits((SumWire(prefix) % 256) + 1)
            /\ \A t \in ChecksumTails :
                   msg_str_calc_chksum(prefix \o t) = Returned(cd.out)

\* a message written with the printable delimiter whose characters add up
\* to 255 modulo 256 got the checksum 256
ChecksumAsImplementedWitness ==
    /\ cd.op = "chksum"
    /\ ChecksumAt(cd.in) > 0
    /\ UsedDelimiter(cd.in) = SOH_UNI
    /\ cd.out = <<"2", "5", "6">>

\* C20 (as claimed): a field operation on a message that does not end with
\* the delimiter it is written with works on the fields that delimiter
\* separates: set replaces the first field of the tag and nothing else,
\* insert and remove add and drop whole fields, the list has one entry per
\* field, and get fails with FieldNotFound only when no field has the tag.
FieldOpsDetectDelimiter ==
    (cd.op \in {"set", "insert", "remove", "to_list", "get"}
       /\ ~endswith(cd.in, UsedDelimiter(cd.in))) =>
        LET d   == UsedDelimiter(cd.in)
            F   == split(cd.in, d)
            k   == FirstHit(F, cd.tag)
            new == Fld(cd.tag, cd.val)
            Other(field) == ~startswith(field, FieldKey(cd.tag))
        IN  /\ cd.op = "set" =>
                 split(cd.out, d) = IF k = 0 THEN F ELSE [F EXCEPT ![k] = new]
            /\ cd.op = "insert" => split(cd.out, d) = ListInsert(F, cd.pos, new)
            /\ cd.op = "remove" => split(cd.out, d) = SelectSeq(F, Other)
            /\ cd.op = "to_list" =>
                 /\ Len(cd.out) = Len(F)
                 /\ \A i \in 1..Len(F) : cd.out[i] = split1(F[i], DELIM_UNI)
            /\ cd.op = "get" => (cd.raised = "FieldNotFound" <=> k = 0)

(***************************************************************************)
(* Properties of the fuzzing engine (SpecFuzz)                             *)
(***************************************************************************)
\* the fuzz loop is at a field of the list
AtField == pc = "fuzz_loop" /\ fuzz_i \in 1..Len(fuzz_fields)

\* the foreground thread takes a step of the fuzz loop
FuzzLoopStep == AtField /\ <<pc, fuzz_i>>' /= <<pc, fuzz_i>>

\* C21: at a denylisted field (8, 49, 56, 52) the fuzz loop transmits
\* nothing, logs nothing, writes no CSV row and goes on to the next field
\* of the list; so no payload is ever in flight for a denylisted field.
DenylistedFieldSkipped ==
    /\ [][ (FuzzLoopStep /\ fuzz_fields[fuzz_i] \in {8, 49, 56, 52}) =>
             /\ outbound' = outbound
             /\ session_message_log' = session_message_log
             /\ csv_file' = csv_file
             /\ counter' = counter
             /\ fuzz_i' = fuzz_i + 1
             /\ pc' = "fuzz_loop" ]_vars
    /\ [](pc = "fuzz_poll" => fuzz_fields[fuzz_i] \notin {8, 49, 56, 52})

\* the run over BeginString and Symbol has passed field 8 and has written
\* the rows of field 55
DenylistedFieldSkippedWitness ==
    /\ fuzz_fields = <<8, 55>>
    /\ fuzz_i > Len(fuzz_fields)
    /\ csv_file /= <<>>
    /\ Len(csv_file) = Len(fuzz_dict)

\* the fields of the list that are not denylisted
AllowedCount ==
    Cardinality({i \in 1..Len(fuzz_fields) : fuzz_fields[i] \notin {8, 49, 56, 52}})

\* C22 (as claimed): every step of the loop at an allowed field transmits
\* one message built from the original message and the payload; the rows
\* written carry the ids 0, 1, 2, ... in order, one per transmission, and a
\* finished run has written F x P rows.
FuzzRowsPerFieldAndPayload ==
    /\ [][ (FuzzLoopStep /\ pc' = "fuzz_poll") =>
             /\ ev'.op = "toApp" /\ ev'.path = "sent"
             /\ ev'.msg.body = unicode_escape(fuzz_dict[fuzz_j])
             /\ ev'.msg.type = MsgType_Order ]_vars
    /\ [](\A k \in 1..Len(csv_file) : csv_file[k].id = k - 1)
    /\ []((ev.op = "fuzz" /\ ev.path = "done") =>
             Len(csv_file) = AllowedCount * Len(fuzz_dict))

\* C23 (as claimed): the string built for a payload is transmitted as it
\* is, also when the engine cannot parse it: the send of the fuzz loop puts
\* a message with the payload and the timestamp just set on the wire.
FuzzSendsRaw ==
    [][ (FuzzLoopStep /\ pc' = "fuzz_poll") =>
          /\ Len(outbound') = Len(outbound) + 1
          /\ outbound'[Len(outbound')].body = unicode_escape(fuzz_dict[fuzz_j])
          /\ outbound'[Len(outbound')].time = sending_time' ]_vars

\* C24 (as claimed): a run whose dictionary file cannot be read fuzzes with
\* the generated payloads, never with an empty payload list.
UnreadableDictFallsBack ==
    (ev.op = "fuzz" /\ ev.path = "unreadable") =>
        /\ fuzz_dict = _generate_fuzz_data
        /\ fuzz_dict /= <<>>

(***************************************************************************)
(* Properties of the sequence overrides (Spec)                             *)
(***************************************************************************)
\* fromAdmin handles a message whose Text reports a mismatch of kw
MismatchReported(kw) ==
    /\ engState = "logon_sent"
    /\ ev'.op = "fromAdmin" /\ ev'.path = "rejected"
    /\ ev'.msg.text /= NoText
    /\ ev'.msg.text.kw = kw

\* C29 (as claimed): a text about NextExpectedMsgSeqNum leaves the sender
\* override as it was, and a text about MsgSeqNum leaves the
\* expected-incoming override as it was.
OverridesSeparate ==
    [][ /\ MismatchReported("NextExpectedMsgSeqNum") =>
               session_NextSenderSeqNum' = session_NextSenderSeqNum
        /\ MismatchReported("MsgSeqNum") =>
               session_NextExpSeqNum' = session_NextExpSeqNum ]_vars

\* C30 (as claimed): after a text "... expecting N" the override recorded
\* is N, and a Logon sent while it is recorded carries N.
OverrideIsAnnouncedNumber ==
    [][ /\ MismatchReported("MsgSeqNum") =>
               session_NextSenderSeqNum' = ev'.msg.text.n
        /\ MismatchReported("NextExpectedMsgSeqNum") =>
               session_NextExpSeqNum' = ev'.msg.text.n
        /\ (ev.op = "fromAdmin" /\ ev.path = "rejected" /\ ev.msg.text /= NoText
              /\ ev.msg.text.kw = "MsgSeqNum"
              /\ ev'.op = "toAdmin" /\ ev'.path = "logged"
              /\ ev'.msg.type = MsgType_Logon) =>
               ev'.msg.seq = ev.msg.text.n ]_vars

(***************************************************************************)
(* Properties of the substitution queue (SpecPipe)                         *)
(***************************************************************************)
\* C28 (as claimed): while a substitution is queued, a message that reaches
\* the logging hook from the engine (inbound, or a heartbeat going out) or
\* from a send that is no raw send is written to the log once, as SENT,
\* with its own content and no note.
SubstitutionOnlyForItsSend ==
    [][ (message_queue /= <<>> /\ log_file' /= log_file
           /\ \/ ev'.op \in {"fromApp", "fromAdmin", "toAdmin"}
              \/ ev'.op = "toApp" /\ ev'.msg = AppMsg /\ Len(message_queue') <= Len(message_queue)) =>
          /\ Len(log_file') = Len(log_file) + 1
          /\ log_file'[Len(log_file')].state = "SENT"
          /\ log_file'[Len(log_file')].notes = <<>>
          /\ log_file'[Len(log_file')].msg = msg_to_str(ev'.msg, FALSE) ]_vars

\* C25 (as claimed): whatever errors the engine reports, str_to_msg makes at
\* most one repaired retry; when the retry fails too the failure is
\* reported and None is returned; the message being edited is not changed.
ParseRepairsOnce ==
    cd.op = "parse" =>
        /\ cd.n <= 1
        /\ Len(cd.val) >= 2 => (cd.raised = "reported" /\ cd.out = <<>>)
        /\ raw = cd.in

(***************************************************************************)
(* Properties of the history query (SpecHistory)                           *)
(***************************************************************************)
\* the positions of the log, as it was when listed, that match the filter
MatchingAt == {i \in 1..hq.len : FilterMatches(hq.filter, session_message_log[i])}

\* the k-th matching position
NthMatch(k) == CHOOSE i \in MatchingAt : Cardinality({j \in MatchingAt : j <= i}) = k

\* C26: the query returns the matching entries of the log in log order,
\* the last depth of them when depth is between 1 and their number and all
\* of them otherwise, and nothing else.
HistoryQueryLastMatching ==
    LET total == Cardinality(MatchingAt)
        count == IF hq.depth = 0 \/ hq.depth > total THEN total ELSE hq.depth
    IN  /\ Len(hq.out) = count
        /\ \A k \in 1..count : hq.out[k] = session_message_log[NthMatch(total - count + k)]
        /\ \A k \in 1..Len(hq.out) : FilterMatches(hq.filter, hq.out[k])

\* a query with depth 1 skipped the log's last entry, which did not match,
\* and returned the match before it
HistoryQueryLastMatchingWitness ==
    /\ hq.depth = 1
    /\ hq.len >= 2
    /\ hq.len \notin MatchingAt
    /\ Len(hq.out) = 1
    /\ Cardinality(MatchingAt) >= 2

(***************************************************************************)
(* Properties of an application with two sessions (SpecSessions)           *)
(***************************************************************************)
\* C27 (as claimed): a logon, a logout or a callback of the first session
\* leaves the entries of the second session as they are, and the reconnect
\* interval logon writes back into the first session's settings is the one
\* that session was configured with.
SessionsIndependent ==
    /\ [][ peer.created => peer' = peer ]_vars
    /\ [][ (pc = "logon_poll" /\ pc' = "idle") =>
             session_settings'.ReconnectInterval \in ConfigIntervals ]_vars

=============================================================================
